---------------------------- MODULE Spec2Model ----------------------------
(***************************************************************************)
(* A model of next-server-session: the session resolver (getSessionId),    *)
(* the session data API and the CSRF protocol of index.ts, over the        *)
(* in-memory store (memorySessionStore.ts) or the Redis store              *)
(* (redisSessionStore.ts) and the cookie handler (cookieHandler.ts).       *)
(*                                                                         *)
(* The specifications run the API one call at a time: every action is one *)
(* API call on a request carrying some cookie, run to completion, and it   *)
(* records in `last` what the call was, what it returned and the backend   *)
(* calls it made, in order (what the jest mocks of index.test.ts record).  *)
(* Spec is an application using the session data API over the in-memory    *)
(* store; SpecCsrfData, SpecCsrfRedis and SpecCsrfAny are applications     *)
(* using the CSRF protocol over the in-memory store, the Redis store and   *)
(* either of them.                                                         *)
(*                                                                         *)
(* JavaScript objects are values with identity.  The in-memory store's get *)
(* returns the very object the Map holds, so `delete data[k]` in the API   *)
(* changes the stored record in place; the Redis store's get returns a     *)
(* copy (JSON.parse).  A local object is therefore modelled as either an   *)
(* alias of the record of an id, or a private value.  Within one call run  *)
(* to completion no other call replaces the record between the get and the *)
(* use of its result, so an alias always denotes the Map's current object. *)
(***************************************************************************)
EXTENDS Integers, Sequences, FiniteSets, TLC

\* How many ids Store.id() (uuid v4) hands out before the model stops minting.
MaxIds == 2
\* How many CSRF tokens (uuid v4) getCSRFToken hands out.
MaxTokens == 2
\* How many ids Store.id() hands out where calls run concurrently.
MaxRaceIds == 3
\* How far the clock runs, in ticks.
MaxTime == 8

\* Time is counted in ticks of 5 s from the creation of the store.
\* setInterval(..., 10000): the sweep is due every 10 s.
SweepInterval == 2
\* createMemorySessionStore(maxSessionAgeMS) as the application configures
\* it: here 15 s, so that the sweep is due both at and between the instants
\* at which records reach that age.
MaxSessionAge == 3

\* Ids minted by Store.id(): uuid v4 never repeats, the n-th call returns n.
MintedIds == 1..MaxIds
\* An id no store ever minted, as a client may put it in its cookie.
ForgedId == 0
\* The request carries no session cookie (cookies[cookieName] is undefined).
NoCookie == -1
CookieIds == MintedIds \cup {ForgedId}
\* undefined passed as a sessionId (the Map takes any value as a key).
MissingId == -3
\* The keys the store's Map can hold.
StoreKeys == CookieIds \cup {MissingId}

\* The application's keys and values of session data.
DataKeys == {"a", "b"}
Vals == {100, 200}
Tokens == 1..MaxTokens
\* A token string no getCSRFToken ever returned, as a client may supply it.
ForgedToken == -2
\* JavaScript's undefined, as the value of an absent property or argument.
Undefined == 0

EmptyData == [k \in {} |-> Undefined]
\* The objects the application passes as data: every map from some of
\* DataKeys to Vals.
DataObjects == UNION {[ks -> Vals] : ks \in SUBSET DataKeys}
\* The one object the application of the CSRF scenarios stores.
CsrfObjects == {[k \in {"a"} |-> 100]}

\* Two objects with a key each, as handlers store them one after the other
\* or side by side.
HandlerObjects == {[k \in {"a"} |-> 100], [k \in {"b"} |-> 200]}

NoRecord == [absent |-> TRUE]

VARIABLES
    store,    \* the store's Map / the Redis keyspace: id -> record or NoRecord
    kind,     \* which store configure() installed: "memory" or "redis"
    now,      \* Date.now()
    nextId,   \* the next id Store.id() returns
    nextTok,  \* the next token getCSRFToken generates
    sweepAt,  \* when the in-memory store's interval timer is due next
    heap,     \* concurrent calls: the session data objects by identity
    procs,    \* concurrent calls: each call's position and locals
    last,     \* the last API call: op, request cookie, argument, result, backend calls
    checked,  \* history: the tokens that were their session's live token when a
              \* validateCSRFToken ran on that session
    replaced, \* history: the tokens that were their session's live token when a
              \* further getCSRFToken ran on that session
    passed    \* history: the tokens a validateCSRFToken call has accepted

vars == <<store, kind, now, nextId, nextTok, sweepAt, heap, procs, last,
          checked, replaced, passed>>


-----------------------------------------------------------------------------
(* JavaScript objects held in locals.                                      *)

\* undefined, as an omitted argument.
Omitted == [tag |-> "undefined", id |-> NoCookie, val |-> EmptyData]
\* null, as Store.get returns it for an id with no record.
Null == [tag |-> "null", id |-> NoCookie, val |-> EmptyData]
\* The object the in-memory Map holds as the data of record i.
AliasOf(i) == [tag |-> "alias", id |-> i, val |-> EmptyData]
\* An object of its own (a literal, or the result of JSON.parse).
Private(d) == [tag |-> "val", id |-> NoCookie, val |-> d]

\* The object's properties, read through the machine state m.
Deref(m, o) ==
    IF o.tag = "alias" THEN m.store[o.id].data
    ELSE o.val

\* o[k], undefined when o has no property k.
Prop(d, k) == IF k \in DOMAIN d THEN d[k] ELSE Undefined

\* The properties of d without k (what `delete o[k]` leaves).
Without(d, k) == [x \in (DOMAIN d) \ {k} |-> d[x]]

\* The arguments of Object.assign in the other order: d's properties win.
Assign_oldWins(d, e) ==
    [k \in (DOMAIN d) \cup (DOMAIN e) |-> IF k \in DOMAIN d THEN d[k] ELSE e[k]]

\* Object.assign({}, d, e): e's properties over d's.
Assign(d, e) ==
    [k \in (DOMAIN d) \cup (DOMAIN e) |-> IF k \in DOMAIN e THEN e[k] ELSE d[k]]

\* One backend call, as the test's mocks record it.
Call(op, id, data) == [op |-> op, id |-> id, data |-> data]

Logged(m, op, id, data) == [m EXCEPT !.log = Append(@, Call(op, id, data))]

-----------------------------------------------------------------------------
(* The machine state m threaded through a call:                            *)
(*   store, kind, now, nextId, nextTok as the variables,                   *)
(*   log: the backend calls made so far, ret: the last call's result.      *)

\* `delete o[k]`: changes the stored record when o is the Map's own object.
\* Returns the machine state and the object after the deletion.
DeleteProp(m, o, k) ==
    IF o.tag = "alias"
    THEN [m |-> [m EXCEPT !.store[o.id].data = Without(@, k)], o |-> o]
    ELSE [m |-> m, o |-> Private(Without(o.val, k))]

(* memorySessionStore.ts *)

\* The sweep's test of a record at time t, one tick late.
Expired_late(rec, t) == rec.lastUpdate < t - MaxSessionAge - 1

\* value.lastUpdate < Date.now() - maxSessionAgeMS
Expired(rec, t) == rec.lastUpdate < t - MaxSessionAge

\* The ids that have a record.
Keys(st) == {i \in DOMAIN st : st[i] # NoRecord}

\* A callback that deletes one expired record and leaves the loop.
Swept_one(st, t) ==
    [i \in DOMAIN st |->
        IF /\ st[i] # NoRecord /\ Expired(st[i], t)
           /\ \A j \in DOMAIN st : (st[j] # NoRecord /\ Expired(st[j], t)) => i <= j
        THEN NoRecord ELSE st[i]]

\* The callback of setInterval: every expired record is deleted.
Swept(st, t) ==
    [i \in DOMAIN st |->
        IF st[i] # NoRecord /\ Expired(st[i], t) THEN NoRecord ELSE st[i]]

\* get making an empty record for an id it does not know.
MemoryGet_creates(m, i) ==
    IF m.store[i] # NoRecord
    THEN [m EXCEPT !.store[i].lastUpdate = m.now, !.ret = AliasOf(i)]
    ELSE [m EXCEPT !.store[i] = [lastUpdate |-> m.now, data |-> EmptyData],
                   !.ret = Null]

\* get without the write of lastUpdate.
MemoryGet_noTouch(m, i) ==
    IF m.store[i] # NoRecord
    THEN [m EXCEPT !.ret = AliasOf(i)]
    ELSE [m EXCEPT !.ret = Null]

MemoryGet(m, i) ==
    IF m.store[i] # NoRecord
    THEN [m EXCEPT !.store[i].lastUpdate = m.now, !.ret = AliasOf(i)]
    ELSE [m EXCEPT !.ret = Null]

\* set laying the data over the record's old data.
MemorySet_keepsOld(m, i, d) ==
    [m EXCEPT !.store[i] =
                 [lastUpdate |-> m.now,
                  data |-> Assign(IF m.store[i] # NoRecord THEN m.store[i].data
                                  ELSE EmptyData, d)],
              !.ret = Undefined]

MemorySet(m, i, d) ==
    [m EXCEPT !.store[i] = [lastUpdate |-> m.now, data |-> d], !.ret = Undefined]

\* merge forgetting the record's old data.
MemoryMerge_replaces(m, i, d) ==
    [m EXCEPT !.store[i] = [lastUpdate |-> m.now, data |-> Assign(EmptyData, d)],
              !.ret = Undefined]

MemoryMerge(m, i, d) ==
    [m EXCEPT !.store[i] =
                 [lastUpdate |-> m.now,
                  data |-> Assign(IF m.store[i] # NoRecord THEN m.store[i].data
                                  ELSE EmptyData, d)],
              !.ret = Undefined]

\* store.clear() where the code has store.delete(sessionId).
MemoryDestroy_clears(m, i) ==
    [m EXCEPT !.store = [j \in DOMAIN m.store |-> NoRecord],
              !.ret = (m.store[i] # NoRecord)]

\* store.delete(sessionId): Map.delete tells whether there was an entry.
MemoryDestroy(m, i) ==
    [m EXCEPT !.store[i] = NoRecord, !.ret = (m.store[i] # NoRecord)]

(* redisSessionStore.ts: the keyspace holds JSON text; a record's idle    *)
(* clock is the key's TTL, restarted by expire and setex.  expire and del *)
(* are sent without await; the one connection runs commands in the order  *)
(* they were sent, so a call run to completion sees them done.            *)

\* JSON.parse(JSON.stringify(d)) of a flat object of strings and numbers:
\* the same properties, in a new object.
JsonCopy(d) == [k \in DOMAIN d |-> d[k]]

RedisGet(m, i) ==
    IF m.store[i] # NoRecord
    THEN [m EXCEPT !.store[i].lastUpdate = m.now,
                   !.ret = Private(JsonCopy(m.store[i].data))]
    ELSE [m EXCEPT !.ret = Null]

RedisSet(m, i, d) ==
    [m EXCEPT !.store[i] = [lastUpdate |-> m.now, data |-> JsonCopy(d)],
              !.ret = Undefined]

RedisMerge(m, i, d) ==
    LET value == IF m.store[i] # NoRecord THEN JsonCopy(m.store[i].data)
                 ELSE EmptyData
    IN  [m EXCEPT !.store[i] = [lastUpdate |-> m.now,
                                data |-> JsonCopy(Assign(value, d))],
                  !.ret = Undefined]

RedisDestroy(m, i) == [m EXCEPT !.store[i] = NoRecord, !.ret = Undefined]

(* The configured store, each call recorded.                               *)

StoreGet(m, i) ==
    LET l == Logged(m, "store.get", i, EmptyData)
    IN  IF m.kind = "memory" THEN MemoryGet(l, i) ELSE RedisGet(l, i)

StoreSet(m, i, o) ==
    LET d == Deref(m, o)
        l == Logged(m, "store.set", i, d)
    IN  IF m.kind = "memory" THEN MemorySet(l, i, d) ELSE RedisSet(l, i, d)

StoreMerge(m, i, o) ==
    LET d == Deref(m, o)
        l == Logged(m, "store.merge", i, d)
    IN  IF m.kind = "memory" THEN MemoryMerge(l, i, d) ELSE RedisMerge(l, i, d)

StoreDestroy(m, i) ==
    LET l == Logged(m, "store.destroy", i, EmptyData)
    IN  IF m.kind = "memory" THEN MemoryDestroy(l, i) ELSE RedisDestroy(l, i)

\* An id generator that hands out an id that has a record.
StoreId_reuses(m) ==
    LET i == IF Keys(m.store) # {} THEN CHOOSE k \in Keys(m.store) : TRUE ELSE m.nextId
    IN  [Logged(m, "store.id", i, EmptyData) EXCEPT !.nextId = m.nextId + 1, !.ret = i]

\* id: async () => uuid()
StoreId(m) ==
    [Logged(m, "store.id", m.nextId, EmptyData)
        EXCEPT !.nextId = m.nextId + 1, !.ret = m.nextId]

(* cookieHandler.ts: the request's cookie is c; write and destroy set the  *)
(* response's Set-Cookie header.                                           *)

CookieRead(m, c) == [Logged(m, "cookie.read", c, EmptyData) EXCEPT !.ret = c]

CookieWrite(m, i) == [Logged(m, "cookie.write", i, EmptyData) EXCEPT !.ret = Undefined]

CookieDestroy(m) ==
    [Logged(m, "cookie.destroy", NoCookie, EmptyData) EXCEPT !.ret = Undefined]

-----------------------------------------------------------------------------
(* index.ts.  c is the cookie the request carries; the two call shapes     *)
(* (a context, or a request and a response) name the same request and      *)
(* response, and persistSession is the flag either shape passes.           *)

\* What a call returns to its caller: the kind of value and the value.
Result(tag, val) == [tag |-> tag, val |-> val]

\* A cookie write ahead of the Store.set it announces.
freshSessionId_writeFirst(m, c, persistSession) ==
    LET m3 == StoreId(m)
        sessionId == m3.ret
        m4 == IF persistSession
              THEN StoreSet(CookieWrite(m3, sessionId), sessionId, Private(EmptyData))
              ELSE IF c # NoCookie THEN CookieDestroy(m3) ELSE m3
    IN  [m4 EXCEPT !.ret = sessionId]

\* The cookie cleared without asking whether the request carried one.
freshSessionId_alwaysDestroy(m, c, persistSession) ==
    LET m3 == StoreId(m)
        sessionId == m3.ret
        m4 == IF persistSession
              THEN CookieWrite(StoreSet(m3, sessionId, Private(EmptyData)), sessionId)
              ELSE CookieDestroy(m3)
    IN  [m4 EXCEPT !.ret = sessionId]

\* The session persisted under the id the cookie brought.
freshSessionId_adoptsCookie(m, c, persistSession) ==
    LET m3 == StoreId(m)
        sessionId == IF c # NoCookie THEN c ELSE m3.ret
        m4 == IF persistSession
              THEN CookieWrite(StoreSet(m3, sessionId, Private(EmptyData)), sessionId)
              ELSE IF c # NoCookie THEN CookieDestroy(m3) ELSE m3
    IN  [m4 EXCEPT !.ret = sessionId]

\* getSessionId's branch for a request with no live session: a new id,
\* persisted and sent as a cookie, or kept for this request only.
freshSessionId(m, c, persistSession) ==
    LET m3 == StoreId(m)
        sessionId == m3.ret
        m4 == IF persistSession
              THEN CookieWrite(StoreSet(m3, sessionId, Private(EmptyData)), sessionId)
              ELSE IF c # NoCookie THEN CookieDestroy(m3) ELSE m3
    IN  [m4 EXCEPT !.ret = sessionId]

\* The result of Store.get taken the wrong way round: (await store.get(id))
\* where the code has !(await store.get(id)).
getSessionId_negationLost(m, c, persistSession) ==
    LET m1 == CookieRead(m, c)
        m2 == IF c # NoCookie THEN StoreGet(m1, c) ELSE m1
    IN  IF c # NoCookie /\ m2.ret = Null
        THEN [m2 EXCEPT !.ret = c]
        ELSE freshSessionId(m2, c, persistSession)

\* The cookie's id taken as the session id without asking the store.
getSessionId_trustsCookie(m, c, persistSession) ==
    LET m1 == CookieRead(m, c)
    IN  IF c # NoCookie
        THEN [m1 EXCEPT !.ret = c]
        ELSE freshSessionId(m1, c, persistSession)

getSessionId(m, c, persistSession) ==
    LET m1 == CookieRead(m, c)
        m2 == IF c # NoCookie THEN StoreGet(m1, c) ELSE m1
    IN  IF c # NoCookie /\ m2.ret # Null
        THEN [m2 EXCEPT !.ret = c]
        ELSE freshSessionId(m2, c, persistSession)

\* The resolution asked to persist, as the writing calls ask it.
getSessionData_persists(m, c) ==
    LET m1 == getSessionId(m, c, TRUE)
        m2 == StoreGet(m1, m1.ret)
    IN  IF m2.ret # Null THEN m2 ELSE [m2 EXCEPT !.ret = Private(EmptyData)]

\* return await store.get(await getSessionId(a, b)) || {}
getSessionData(m, c) ==
    LET m1 == getSessionId(m, c, FALSE)
        m2 == StoreGet(m1, m1.ret)
    IN  IF m2.ret # Null THEN m2 ELSE [m2 EXCEPT !.ret = Private(EmptyData)]

\* throw new Error(msg)
Thrown(m, msg) == [m EXCEPT !.ret = [tag |-> "throw", msg |-> msg]]

\* The new data laid over the old, as setSessionData does it.
replaceSessionData_merges(m, c, data) ==
    IF data = Omitted
    THEN Thrown(m, "No session data given")
    ELSE LET m1 == getSessionId(m, c, TRUE)
         IN  StoreMerge(m1, m1.ret, data)

replaceSessionData(m, c, data) ==
    IF data = Omitted
    THEN Thrown(m, "No session data given")
    ELSE LET m1 == getSessionId(m, c, TRUE)
         IN  StoreSet(m1, m1.ret, data)

\* The session resolved before the data is looked at.
setSessionData_resolvesFirst(m, c, data) ==
    LET m1 == getSessionId(m, c, TRUE)
    IN  IF data = Omitted
        THEN Thrown(m1, "No session data given")
        ELSE StoreMerge(m1, m1.ret, data)

\* The resolution not asked to persist, as the reading calls ask it.
setSessionData_noPersist(m, c, data) ==
    IF data = Omitted
    THEN Thrown(m, "No session data given")
    ELSE LET m1 == getSessionId(m, c, FALSE)
         IN  StoreMerge(m1, m1.ret, data)

setSessionData(m, c, data) ==
    IF data = Omitted
    THEN Thrown(m, "No session data given")
    ELSE LET m1 == getSessionId(m, c, TRUE)
         IN  StoreMerge(m1, m1.ret, data)

\* The data written back when the property is absent too.
pluckSessionProperty_writesBack(m, c, propertyName) ==
    IF propertyName = ""
    THEN Thrown(m, "No propertyName given")
    ELSE LET m1 == getSessionData(m, c)
             data == m1.ret
         IN  IF propertyName \notin DOMAIN Deref(m1, data)
             THEN [replaceSessionData(m1, c, data)
                      EXCEPT !.ret = Result("null", Undefined)]
             ELSE LET result == Deref(m1, data)[propertyName]
                      del == DeleteProp(m1, data, propertyName)
                      m2 == replaceSessionData(del.m, c, del.o)
                 IN  [m2 EXCEPT !.ret = Result("value", result)]

\* The property read and left where it is.
pluckSessionProperty_noDelete(m, c, propertyName) ==
    IF propertyName = ""
    THEN Thrown(m, "No propertyName given")
    ELSE LET m1 == getSessionData(m, c)
             data == m1.ret
         IN  IF propertyName \notin DOMAIN Deref(m1, data)
             THEN [m1 EXCEPT !.ret = Result("null", Undefined)]
             ELSE LET result == Deref(m1, data)[propertyName]
                      m2 == replaceSessionData(m1, c, data)
                 IN  [m2 EXCEPT !.ret = Result("value", result)]

\* propertyName is a key, or "" when it is omitted or empty (!propertyName).
\* Returns null, or the value plucked.
pluckSessionProperty(m, c, propertyName) ==
    IF propertyName = ""
    THEN Thrown(m, "No propertyName given")
    ELSE LET m1 == getSessionData(m, c)
             data == m1.ret
         IN  IF propertyName \notin DOMAIN Deref(m1, data)
             THEN [m1 EXCEPT !.ret = Result("null", Undefined)]
             ELSE LET result == Deref(m1, data)[propertyName]
                      del == DeleteProp(m1, data, propertyName)
                      m2 == replaceSessionData(del.m, c, del.o)
                 IN  [m2 EXCEPT !.ret = Result("value", result)]

\* The record deleted and the cookie left with the client.
destroySession_keepsCookie(m, c) ==
    LET m1 == getSessionId(m, c, FALSE)
    IN  StoreDestroy(m1, m1.ret)

destroySession(m, c) ==
    LET m1 == getSessionId(m, c, FALSE)
        m2 == StoreDestroy(m1, m1.ret)
    IN  CookieDestroy(m2)

\* A token that is not new: the one the previous call returned.
getCSRFToken_repeats(m, c) ==
    LET csrfToken == IF m.nextTok > 1 THEN m.nextTok - 1 ELSE m.nextTok
        m1 == setSessionData([m EXCEPT !.nextTok = m.nextTok + 1], c,
                             Private([k \in {"csrfToken"} |-> csrfToken]))
    IN  [m1 EXCEPT !.ret = csrfToken]

\* The token stored with replaceSessionData.
getCSRFToken_replaces(m, c) ==
    LET csrfToken == m.nextTok
        m1 == replaceSessionData([m EXCEPT !.nextTok = m.nextTok + 1], c,
                                 Private([k \in {"csrfToken"} |-> csrfToken]))
    IN  [m1 EXCEPT !.ret = csrfToken]

\* const csrfToken = require("uuid").v4()
getCSRFToken(m, c) ==
    LET csrfToken == m.nextTok
        m1 == setSessionData([m EXCEPT !.nextTok = m.nextTok + 1], c,
                             Private([k \in {"csrfToken"} |-> csrfToken]))
    IN  [m1 EXCEPT !.ret = csrfToken]

\* The token compared and left in the session.
validateCSRFToken_noDelete(m, c, token) ==
    LET m1 == getSessionData(m, c)
        sessionData == m1.ret
        wasValid == Prop(Deref(m1, sessionData), "csrfToken") = token
        m2 == setSessionData(m1, c, sessionData)
    IN  [m2 EXCEPT !.ret = wasValid]

\* token is the supplied token, Undefined when omitted.
validateCSRFToken(m, c, token) ==
    LET m1 == getSessionData(m, c)
        sessionData == m1.ret
        wasValid == Prop(Deref(m1, sessionData), "csrfToken") = token
        del == DeleteProp(m1, sessionData, "csrfToken")
        m2 == setSessionData(del.m, c, del.o)
    IN  [m2 EXCEPT !.ret = wasValid]

-----------------------------------------------------------------------------
(* Calls that run concurrently.  An async function runs without           *)
(* interruption up to its next await; every backend operation of the       *)
(* in-memory store and of the cookie handler is an async function without *)
(* an await of its own, so it takes effect when it is called, and the      *)
(* caller continues in a later task.  A call of the API is therefore a     *)
(* sequence of steps, each one the code since the last backend call        *)
(* returned together with the next backend call, and the steps of          *)
(* concurrent calls interleave.  The Redis store's merge awaits redis.get  *)
(* and then redis.setex: two steps.                                        *)
(*                                                                         *)
(* Here the in-memory Map holds objects by identity: the record of an id   *)
(* is [lastUpdate, obj], obj the place of the data object in heap.  The    *)
(* Redis keyspace holds values, [lastUpdate, data], as above.              *)

ProcIds == {1, 2}

\* A local that holds the object at place o of the heap.
Ref(o) == [tag |-> "ref", id |-> o, val |-> EmptyData]

\* No call: the state of a process before it starts one.
Idle ==
    [op |-> "idle", c |-> NoCookie, arg |-> Undefined, pc |-> "idle", phase |-> 0,
     persist |-> FALSE, sid |-> NoCookie, data |-> Null, value |-> EmptyData,
     ret |-> Result("undefined", Undefined), log |-> << >>,
     raced |-> FALSE]

\* The shared state a step works on (ret: the backend call's result).
World ==
    [store |-> store, heap |-> heap, kind |-> kind, now |-> now,
     nextId |-> nextId, ret |-> Undefined]

\* The properties of a local object.
RaceDeref(w, x) == IF x.tag = "ref" THEN w.heap[x.id] ELSE x.val

\* The data the Map or the keyspace holds for id i, {} when there is none.
RaceData(w, i) ==
    IF w.store[i] = NoRecord THEN EmptyData
    ELSE IF w.kind = "memory" THEN w.heap[w.store[i].obj]
    ELSE w.store[i].data

\* memorySessionStore.ts get: the Map's own object is returned.
RaceMemoryGet_copies(w, i) ==
    IF w.store[i] # NoRecord
    THEN [w EXCEPT !.store[i].lastUpdate = w.now,
                   !.ret = Private(w.heap[w.store[i].obj])]
    ELSE [w EXCEPT !.ret = Null]

RaceMemoryGet(w, i) ==
    IF w.store[i] # NoRecord
    THEN [w EXCEPT !.store[i].lastUpdate = w.now, !.ret = Ref(w.store[i].obj)]
    ELSE [w EXCEPT !.ret = Null]

\* memorySessionStore.ts set: the caller's object becomes the record's data
\* (an object literal of the caller is a new object).
RaceMemorySet(w, i, x) ==
    IF x.tag = "ref"
    THEN [w EXCEPT !.store[i] = [lastUpdate |-> w.now, obj |-> x.id],
                   !.ret = Undefined]
    ELSE [w EXCEPT !.heap = Append(@, x.val),
                   !.store[i] = [lastUpdate |-> w.now, obj |-> Len(w.heap) + 1],
                   !.ret = Undefined]

\* merge that stores the new data alone.
RaceMemoryMerge_replaces(w, i, x) ==
    [w EXCEPT !.heap = Append(@, Assign(EmptyData, RaceDeref(w, x))),
              !.store[i] = [lastUpdate |-> w.now, obj |-> Len(w.heap) + 1],
              !.ret = Undefined]

\* memorySessionStore.ts merge: Object.assign({}, old, data) is a new object.
RaceMemoryMerge(w, i, x) ==
    [w EXCEPT !.heap = Append(@, Assign(RaceData(w, i), RaceDeref(w, x))),
              !.store[i] = [lastUpdate |-> w.now, obj |-> Len(w.heap) + 1],
              !.ret = Undefined]

RaceGet(w, i) == IF w.kind = "memory" THEN RaceMemoryGet(w, i) ELSE RedisGet(w, i)

RaceSet(w, i, x) ==
    IF w.kind = "memory" THEN RaceMemorySet(w, i, x)
    ELSE RedisSet(w, i, RaceDeref(w, x))

RaceDestroy(w, i) == [w EXCEPT !.store[i] = NoRecord, !.ret = Undefined]

\* A delete that works on a copy of the object.
RaceDelete_onCopy(w, x, k) ==
    [w |-> w, x |-> Private(Without(RaceDeref(w, x), k))]

\* `delete x[k]` on a local object: on the heap when x is an object of it.
RaceDelete(w, x, k) ==
    IF x.tag = "ref"
    THEN [w |-> [w EXCEPT !.heap[x.id] = Without(@, k)], x |-> x]
    ELSE [w |-> w, x |-> Private(Without(x.val, k))]

\* The process after a backend call, recorded in its log.
Did(p, op, id, data) == [p EXCEPT !.log = Append(@, Call(op, id, data))]

\* The id of the cookie taken for the new session.
FreshId_adoptsCookie(w, p) == IF p.c # NoCookie THEN p.c ELSE w.nextId

\* sessionId = await store.id(): uuid v4, the next id never handed out.
FreshId(w, p) == w.nextId

\* Where a call goes on when getSessionId has returned.
AfterResolve(p) ==
    CASE p.op = "setSessionData" -> "merge"
      [] p.op = "replaceSessionData" -> "set"
      [] p.op = "destroySession" -> "sdestroy"
      [] p.op \in {"validateCSRFToken", "pluckSessionProperty"} /\ p.phase = 1 -> "dget"
      [] p.op = "validateCSRFToken" /\ p.phase = 2 -> "merge"
      [] p.op = "pluckSessionProperty" /\ p.phase = 2 -> "set"

\* cookie.read(req), the first backend call of getSessionId.
ReadStep(w, p) ==
    [w |-> w,
     p |-> [Did(p, "cookie.read", p.c, EmptyData)
               EXCEPT !.pc = IF p.c = NoCookie THEN "id" ELSE "get"]]

\* The code between getSessionData's return and the next backend call, and
\* that call: validateCSRFToken compares and deletes, pluckSessionProperty
\* tests, reads and deletes; both then resolve the session again, to write.
ResumeStep(w, p) ==
    LET d == RaceDeref(w, p.data)
    IN  IF p.op = "validateCSRFToken"
        THEN LET del == RaceDelete(w, p.data, "csrfToken")
             IN  ReadStep(del.w,
                          [p EXCEPT !.ret = Result("boolean", Prop(d, "csrfToken") = p.arg),
                                    !.data = del.x, !.phase = 2, !.persist = TRUE])
        ELSE IF p.arg \notin DOMAIN d
             THEN [w |-> w,
                   p |-> [p EXCEPT !.ret = Result("null", Undefined), !.pc = "done"]]
             ELSE LET del == RaceDelete(w, p.data, p.arg)
                  IN  ReadStep(del.w,
                               [p EXCEPT !.ret = Result("value", d[p.arg]),
                                         !.data = del.x, !.phase = 2, !.persist = TRUE])

\* One step of the call of process p in the shared state w.
ProcStep(w, p) ==
    CASE p.pc = "read" -> ReadStep(w, p)
      [] p.pc = "get" ->
            LET w1 == RaceGet(w, p.c)
                p1 == Did(p, "store.get", p.c, RaceData(w, p.c))
            IN  IF w1.ret # Null
                THEN LET p2 == [p1 EXCEPT !.sid = p.c]
                     IN  [w |-> w1, p |-> [p2 EXCEPT !.pc = AfterResolve(p2)]]
                ELSE [w |-> w1, p |-> [p1 EXCEPT !.pc = "id"]]
      [] p.pc = "id" ->
            LET p1 == [Did(p, "store.id", FreshId(w, p), EmptyData)
                          EXCEPT !.sid = FreshId(w, p)]
            IN  [w |-> [w EXCEPT !.nextId = w.nextId + 1],
                 p |-> [p1 EXCEPT !.pc = IF p.persist THEN "set0"
                                         ELSE IF p.c # NoCookie THEN "cdestroy"
                                         ELSE AfterResolve(p1)]]
      [] p.pc = "set0" ->
            [w |-> RaceSet(w, p.sid, Private(EmptyData)),
             p |-> [Did(p, "store.set", p.sid, EmptyData) EXCEPT !.pc = "cwrite"]]
      [] p.pc = "cwrite" ->
            [w |-> w,
             p |-> [Did(p, "cookie.write", p.sid, EmptyData) EXCEPT !.pc = AfterResolve(p)]]
      [] p.pc = "cdestroy" ->
            [w |-> w,
             p |-> [Did(p, "cookie.destroy", NoCookie, EmptyData)
                       EXCEPT !.pc = AfterResolve(p)]]
      [] p.pc = "dget" ->
            LET w1 == RaceGet(w, p.sid)
            IN  [w |-> w1,
                 p |-> [Did(p, "store.get", p.sid, RaceData(w, p.sid))
                           EXCEPT !.data = IF w1.ret # Null THEN w1.ret
                                           ELSE Private(EmptyData),
                                  !.pc = "resume"]]
      [] p.pc = "resume" -> ResumeStep(w, p)
      [] p.pc = "merge" ->
            IF w.kind = "memory"
            THEN [w |-> RaceMemoryMerge(w, p.sid, p.data),
                  p |-> [Did(p, "store.merge", p.sid, RaceDeref(w, p.data))
                            EXCEPT !.pc = "done"]]
            ELSE [w |-> w,
                  p |-> [Did(p, "store.merge", p.sid, RaceDeref(w, p.data))
                            EXCEPT !.value = RaceData(w, p.sid), !.pc = "setex"]]
      [] p.pc = "setex" ->
            [w |-> RedisSet(w, p.sid, Assign(p.value, RaceDeref(w, p.data))),
             p |-> [p EXCEPT !.pc = "done"]]
      [] p.pc = "set" ->
            [w |-> RaceSet(w, p.sid, p.data),
             p |-> [Did(p, "store.set", p.sid, RaceDeref(w, p.data))
                       EXCEPT !.pc = "done"]]
      [] p.pc = "sdestroy" ->
            [w |-> RaceDestroy(w, p.sid),
             p |-> [Did(p, "store.destroy", p.sid, EmptyData) EXCEPT !.pc = "cdestroy2"]]
      [] p.pc = "cdestroy2" ->
            [w |-> w,
             p |-> [Did(p, "cookie.destroy", NoCookie, EmptyData) EXCEPT !.pc = "done"]]

-----------------------------------------------------------------------------
(* The API, one call at a time.                                            *)

\* The machine state a call starts in.
Machine ==
    [store |-> store, kind |-> kind, now |-> now, nextId |-> nextId,
     nextTok |-> nextTok, log |-> << >>, ret |-> Undefined]

\* The call ends: the machine state becomes the state, the call is recorded.
Finish(m, op, c, arg, ret) ==
    /\ store' = m.store
    /\ nextId' = m.nextId
    /\ nextTok' = m.nextTok
    /\ last' = [op |-> op, cookie |-> c, arg |-> arg, ret |-> ret, log |-> m.log]
    /\ UNCHANGED <<kind, now, sweepAt, heap, procs>>

\* The cookies a request can carry: none, an id the store minted earlier,
\* or an id of the client's own making.
RequestCookies == {NoCookie, ForgedId} \cup {i \in MintedIds : i < nextId}

\* The request's cookie names a record of the store.
Live(c) == c # NoCookie /\ store[c] # NoRecord

\* The live CSRF token of the request's session, if it has one.
LiveToken(c) ==
    IF Live(c) /\ "csrfToken" \in DOMAIN store[c].data
    THEN {store[c].data["csrfToken"]}
    ELSE {}

\* The call may run: a request with no live session makes it mint n ids.
CanMint(c, n) == Live(c) \/ nextId + n - 1 <= MaxIds

\* The tokens a client can supply: none, an issued one, or one of its own.
SuppliedTokens == {Undefined, ForgedToken} \cup {t \in Tokens : t < nextTok}

CallGetSessionId ==
    \E c \in RequestCookies, persistSession \in BOOLEAN :
        /\ CanMint(c, 1)
        /\ LET m == getSessionId(Machine, c, persistSession)
           IN  Finish(m, "getSessionId", c, persistSession, Result("id", m.ret))
        /\ UNCHANGED <<checked, replaced, passed>>

CallGetSessionData ==
    \E c \in RequestCookies :
        /\ CanMint(c, 1)
        /\ LET m == getSessionData(Machine, c)
           IN  Finish(m, "getSessionData", c, Undefined,
                      Result("object", Deref(m, m.ret)))
        /\ UNCHANGED <<checked, replaced, passed>>

CallReplaceSessionData ==
    \E c \in RequestCookies, d \in DataObjects :
        /\ CanMint(c, 1)
        /\ LET m == replaceSessionData(Machine, c, Private(d))
           IN  Finish(m, "replaceSessionData", c, d, Result("undefined", Undefined))
        /\ UNCHANGED <<checked, replaced, passed>>

CallSetSessionData(objects) ==
    \E c \in RequestCookies, d \in objects :
        /\ CanMint(c, 1)
        /\ LET m == setSessionData(Machine, c, Private(d))
           IN  Finish(m, "setSessionData", c, d, Result("undefined", Undefined))
        /\ UNCHANGED <<checked, replaced, passed>>

CallPluckSessionProperty(keys) ==
    \E c \in RequestCookies, p \in keys :
        /\ CanMint(c, 1)
        /\ LET m == pluckSessionProperty(Machine, c, p)
           IN  Finish(m, "pluckSessionProperty", c, p, m.ret)
        /\ UNCHANGED <<checked, replaced, passed>>

\* setSessionData(req, res) or setSessionData(context): no data given.
CallSetSessionDataNoData ==
    \E c \in RequestCookies :
        /\ LET m == setSessionData(Machine, c, Omitted)
           IN  Finish(m, "setSessionData", c, Omitted, m.ret)
        /\ UNCHANGED <<checked, replaced, passed>>

\* replaceSessionData(req, res) or replaceSessionData(context).
CallReplaceSessionDataNoData ==
    \E c \in RequestCookies :
        /\ LET m == replaceSessionData(Machine, c, Omitted)
           IN  Finish(m, "replaceSessionData", c, Omitted, m.ret)
        /\ UNCHANGED <<checked, replaced, passed>>

\* A handler that calls setSessionData twice with the same request and
\* response: the request's cookie header is what it was for the second call
\* (cookie.write sets a header of the response only).
CallSetSessionDataTwice(objects) ==
    \E c \in RequestCookies, d1 \in objects, d2 \in objects :
        /\ CanMint(c, 2)
        /\ LET m1 == setSessionData(Machine, c, Private(d1))
               m2 == setSessionData(m1, c, Private(d2))
           IN  Finish(m2, "setSessionData twice", c, <<d1, d2>>,
                      Result("undefined", Undefined))
        /\ UNCHANGED <<checked, replaced, passed>>

CallDestroySession ==
    \E c \in RequestCookies :
        /\ CanMint(c, 1)
        /\ LET m == destroySession(Machine, c)
           IN  Finish(m, "destroySession", c, Undefined, Result("undefined", Undefined))
        /\ UNCHANGED <<checked, replaced, passed>>

CallGetCSRFToken ==
    \E c \in RequestCookies :
        /\ CanMint(c, 1)
        /\ nextTok <= MaxTokens
        /\ LET m == getCSRFToken(Machine, c)
           IN  Finish(m, "getCSRFToken", c, Undefined, Result("token", m.ret))
        /\ replaced' = replaced \cup LiveToken(c)
        /\ UNCHANGED <<checked, passed>>

CallValidateCSRFToken ==
    \E c \in RequestCookies, token \in SuppliedTokens :
        /\ CanMint(c, 2)
        /\ LET m == validateCSRFToken(Machine, c, token)
           IN  /\ Finish(m, "validateCSRFToken", c, token, Result("boolean", m.ret))
               /\ passed' = IF m.ret /\ token \in Tokens THEN passed \cup {token}
                             ELSE passed
        /\ checked' = checked \cup LiveToken(c)
        /\ UNCHANGED replaced

-----------------------------------------------------------------------------
(* The store called directly, as the store's tests call it, and the clock. *)

\* The session ids the store's caller uses.
StoreCallIds == {ForgedId, 1}

\* What is recorded of a step that is no API call.
NoCall(op) ==
    [op |-> op, cookie |-> NoCookie, arg |-> Undefined,
     ret |-> Result("undefined", Undefined), log |-> << >>]

CallStoreGet(ids) ==
    \E i \in ids :
        /\ LET m == StoreGet(Machine, i)
           IN  Finish(m, "Store.get", i, Undefined,
                      IF m.ret = Null THEN Result("null", Undefined)
                      ELSE Result("object", Deref(m, m.ret)))
        /\ UNCHANGED <<checked, replaced, passed>>

CallStoreSet(ids, objects) ==
    \E i \in ids, d \in objects :
        /\ LET m == StoreSet(Machine, i, Private(d))
           IN  Finish(m, "Store.set", i, d, Result("undefined", Undefined))
        /\ UNCHANGED <<checked, replaced, passed>>

CallStoreMerge(ids, objects) ==
    \E i \in ids, d \in objects :
        /\ LET m == StoreMerge(Machine, i, Private(d))
           IN  Finish(m, "Store.merge", i, d, Result("undefined", Undefined))
        /\ UNCHANGED <<checked, replaced, passed>>

CallStoreDestroy(ids) ==
    \E i \in ids :
        /\ LET m == StoreDestroy(Machine, i)
           IN  Finish(m, "Store.destroy", i, Undefined,
                      IF kind = "memory" THEN Result("boolean", m.ret)
                      ELSE Result("undefined", Undefined))
        /\ UNCHANGED <<checked, replaced, passed>>

\* Time passes, but not past the instant at which the timer is due: the
\* callback runs at that instant, before or after the calls made at it.
Tick ==
    /\ now < MaxTime
    /\ now < sweepAt
    /\ now' = now + 1
    /\ last' = NoCall("tick")
    /\ UNCHANGED <<store, kind, nextId, nextTok, sweepAt, heap, procs,
                   checked, replaced, passed>>

\* The interval timer fires; the step's record names the ids deleted.
Sweep ==
    /\ kind = "memory"
    /\ now = sweepAt
    /\ store' = Swept(store, now)
    /\ sweepAt' = sweepAt + SweepInterval
    /\ last' = [NoCall("sweep") EXCEPT !.arg = Keys(store) \ Keys(store')]
    /\ UNCHANGED <<kind, now, nextId, nextTok, heap, procs, checked, replaced, passed>>

-----------------------------------------------------------------------------
(* Concurrent calls: each process makes one call.                          *)

\* A call to make: the operation, the request's cookie (the session id for
\* an operation of the store) and the argument.
ApiCall(op, c, arg) == [op |-> op, c |-> c, arg |-> arg]

\* The process at the start of call k.
Started(k) ==
    [Idle EXCEPT !.op = k.op, !.c = k.c, !.arg = k.arg, !.phase = 1,
                 !.pc = IF k.op = "Store.merge" THEN "merge" ELSE "read",
                 !.persist = k.op \in {"setSessionData", "replaceSessionData"},
                 !.sid = IF k.op = "Store.merge" THEN k.c ELSE NoCookie,
                 !.data = IF k.op \in {"setSessionData", "replaceSessionData",
                                       "Store.merge"}
                          THEN Private(k.arg) ELSE Null]

\* A request arrives and its handler makes one of the calls.
StartCall(calls) ==
    \E p \in ProcIds, k \in calls :
        /\ procs[p].pc = "idle"
        /\ procs' = [procs EXCEPT ![p] = Started(k)]
        /\ last' = NoCall("start")
        /\ UNCHANGED <<store, kind, now, nextId, nextTok, sweepAt, heap,
                       checked, replaced, passed>>

\* History: the call of p and another call are both under way, each with a
\* backend call made and more to come.
Overlaps(p) ==
    \E q \in ProcIds \ {p} :
        /\ procs[q].pc \notin {"idle", "done"}
        /\ procs[q].log # << >>
        /\ procs[p].log # << >>

\* A call that is under way takes its next step.
RaceStep ==
    \E p \in ProcIds :
        /\ procs[p].pc \notin {"idle", "done"}
        /\ procs[p].pc = "id" => nextId <= MaxRaceIds
        /\ LET r == ProcStep(World, procs[p])
           IN  /\ store' = r.w.store
               /\ heap' = r.w.heap
               /\ nextId' = r.w.nextId
               /\ procs' = [procs EXCEPT ![p] = [r.p EXCEPT !.raced = @ \/ Overlaps(p)]]
        /\ last' = NoCall("await")
        /\ UNCHANGED <<kind, now, nextTok, sweepAt, checked, replaced, passed>>

\* The backend call a process makes next.
PcOp(pc) ==
    CASE pc \in {"read", "resume"} -> "cookie.read"
      [] pc \in {"get", "dget"} -> "store.get"
      [] pc = "id" -> "store.id"
      [] pc \in {"set0", "set"} -> "store.set"
      [] pc = "cwrite" -> "cookie.write"
      [] pc \in {"cdestroy", "cdestroy2"} -> "cookie.destroy"
      [] pc \in {"merge", "setex"} -> "store.merge"
      [] pc = "sdestroy" -> "store.destroy"

\* A rejection that the call takes note of and then makes the backend call
\* again.
Rejected_retries(p, op) ==
    [p EXCEPT !.log = Append(@, Call("rejected", p.sid, EmptyData))]

\* The promise of backend call op rejects in the call of p: index.ts has no
\* try/catch, each async function up to the handler's await rejects with
\* the same error and none of their code that follows runs.
Rejected(p, op) ==
    [p EXCEPT !.log = Append(@, Call("rejected", p.sid, EmptyData)),
              !.ret = Result("error", op),
              !.pc = "done"]

\* The backend call a process at one of pcs makes next fails, without effect on the
\* store or the response (a store or cookie handler of the application's
\* own, or the Redis client, may reject); the code before the call has run.
FailAt(pcs) ==
    \E p \in ProcIds :
        /\ procs[p].pc \in pcs
        /\ LET r == IF procs[p].pc = "resume" THEN ResumeStep(World, procs[p])
                                               ELSE [w |-> World, p |-> procs[p]]
               q == IF procs[p].pc \in {"resume", "setex"} THEN r.p
                    ELSE Did(r.p, PcOp(procs[p].pc), procs[p].sid, EmptyData)
           IN  /\ r.p.pc # "done"
               /\ store' = r.w.store
               /\ heap' = r.w.heap
               /\ procs' = [procs EXCEPT ![p] = Rejected(q, PcOp(procs[p].pc))]
        /\ last' = NoCall("reject")
        /\ UNCHANGED <<kind, now, nextId, nextTok, sweepAt, checked, replaced, passed>>

\* The places of a call at which it makes a backend call.
AwaitPoints ==
    {"read", "get", "id", "set0", "cwrite", "cdestroy", "dget", "resume",
     "merge", "setex", "set", "sdestroy", "cdestroy2"}

FailStep == FailAt(AwaitPoints)

\* The ids a store can hold where calls run concurrently.
RaceKeys == (0..MaxRaceIds) \cup {MissingId}

\* The state after configure() with the store k and a first request whose
\* setSessionData (or getCSRFToken) left the data seed in a session, id 1.
InitRace(k, seeds) ==
    /\ kind = k
    /\ \E d \in seeds :
        IF k = "memory"
        THEN /\ heap = <<d>>
             /\ store = [i \in RaceKeys |->
                            IF i = 1 THEN [lastUpdate |-> 0, obj |-> 1] ELSE NoRecord]
        ELSE /\ heap = << >>
             /\ store = [i \in RaceKeys |->
                            IF i = 1 THEN [lastUpdate |-> 0, data |-> d] ELSE NoRecord]
    /\ now = 0
    /\ nextId = 2
    /\ nextTok = 2
    /\ sweepAt = IF k = "memory" THEN SweepInterval ELSE 0
    /\ procs = [p \in ProcIds |-> Idle]
    /\ last = [op |-> "configure", cookie |-> NoCookie, arg |-> Undefined,
               ret |-> Result("undefined", Undefined), log |-> << >>]
    /\ checked = {}
    /\ replaced = {}
    /\ passed = {}

\* What the first session holds when the writing calls race.
SetSeeds == {EmptyData, [k \in {"a"} |-> 200]}

\* Requests with the cookie of session 1, with none and with a made-up one
\* write one property each.
SetCalls ==
    {ApiCall(op, c, d) : op \in {"setSessionData", "replaceSessionData"},
                         c \in {1, NoCookie, ForgedId}, d \in HandlerObjects}

NextRaceSet ==
    \/ StartCall(SetCalls)
    \/ RaceStep

SpecRaceSet == InitRace("memory", SetSeeds) /\ [][NextRaceSet]_vars

\* Callers of the Redis store merge one property each into the record of
\* id 1, directly or through setSessionData.
MergeCalls ==
    {ApiCall(op, 1, d) : op \in {"Store.merge", "setSessionData"},
                         d \in HandlerObjects}

NextRaceMerge ==
    \/ StartCall(MergeCalls)
    \/ RaceStep

SpecRaceMergeRedis == InitRace("redis", SetSeeds) /\ [][NextRaceMerge]_vars

\* Two requests of one session submit a CSRF token each, the session's live
\* token or one of the client's making; the session holds the token alone
\* or beside other data.
CsrfSeeds == {[k \in {"csrfToken"} |-> 1], [k \in {"csrfToken", "a"} |-> IF k = "a" THEN 100 ELSE 1]}

ValidateCalls == {ApiCall("validateCSRFToken", 1, t) : t \in {1, ForgedToken}}

NextRaceCsrf ==
    \/ StartCall(ValidateCalls)
    \/ RaceStep

SpecRaceCsrf == InitRace("memory", CsrfSeeds) /\ [][NextRaceCsrf]_vars

\* Two requests of one session pluck a property each, the same or not; the
\* session holds one or both of the properties.
PluckSeeds == {[k \in {"a"} |-> 200], [k \in {"a", "b"} |-> IF k = "a" THEN 100 ELSE 200]}

PluckCalls == {ApiCall("pluckSessionProperty", 1, k) : k \in {"a", "b"}}

NextRacePluck ==
    \/ StartCall(PluckCalls)
    \/ RaceStep

SpecRacePluck == InitRace("memory", PluckSeeds) /\ [][NextRacePluck]_vars

\* Two requests of one session: each destroys the session or writes to it.
DestroyCalls ==
    {ApiCall("destroySession", 1, Undefined)} \cup
    {ApiCall(op, 1, d) : op \in {"setSessionData", "replaceSessionData"},
                         d \in HandlerObjects}

NextRaceDestroy ==
    \/ StartCall(DestroyCalls)
    \/ RaceStep

SpecRaceDestroy == InitRace("memory", SetSeeds) /\ [][NextRaceDestroy]_vars

\* Two requests write to a session, or without one, and any backend call of
\* theirs may fail.
FailCalls ==
    {ApiCall(op, c, [k \in {"a"} |-> 100]) :
        op \in {"setSessionData", "replaceSessionData"}, c \in {1, NoCookie, ForgedId}}

NextRaceFail ==
    \/ StartCall(FailCalls)
    \/ RaceStep
    \/ FailStep

SpecRaceFail == InitRace("memory", SetSeeds) /\ [][NextRaceFail]_vars

\* The ids a client can hold: that of the first session and every id a
\* response carried in its Set-Cookie header.
IssuedIds ==
    {1} \cup {i \in RaceKeys : \E p \in ProcIds : \E j \in DOMAIN procs[p].log :
                    procs[p].log[j] = Call("cookie.write", i, EmptyData)}

\* A request arrives, with no cookie or with an id its client holds, and
\* its handler makes one of the calls.
StartRequest(ops, args) ==
    \E p \in ProcIds, op \in ops, c \in IssuedIds \cup {NoCookie} :
        /\ procs[p].pc = "idle"
        /\ procs' = [procs EXCEPT ![p] = Started(ApiCall(op, c, args[op]))]
        /\ last' = NoCall("start")
        /\ UNCHANGED <<store, kind, now, nextId, nextTok, sweepAt, heap,
                       checked, replaced, passed>>

\* What the handlers do while the clock runs: they store a property.
SweepArgs == [op \in {"setSessionData"} |-> [k \in {"a"} |-> 100]]

\* Requests that arrive before the first sweep, some of them racing, some
\* failing at the cookie write, under the clock and the sweep of the
\* in-memory store.
NextSweep ==
    \/ (now < SweepInterval /\ StartRequest(DOMAIN SweepArgs, SweepArgs))
    \/ RaceStep
    \/ FailAt({"cwrite"})
    \/ Tick
    \/ Sweep

\* Time advances and the interval timer fires when it is due.
SpecSweep ==
    /\ InitRace("memory", {[k \in {"a"} |-> 200]})
    /\ [][NextSweep]_vars
    /\ WF_vars(Tick)
    /\ WF_vars(Sweep)

\* configure({ sessionStore: createMemorySessionStore() }): a new, empty store.
Init ==
    /\ store = [i \in StoreKeys |-> NoRecord]
    /\ kind = "memory"
    /\ now = 0
    /\ nextId = 1
    /\ nextTok = 1
    /\ sweepAt = SweepInterval
    /\ heap = << >>
    /\ procs = [p \in ProcIds |-> Idle]
    /\ last = [op |-> "configure", cookie |-> NoCookie, arg |-> Undefined,
               ret |-> Result("undefined", Undefined), log |-> << >>]
    /\ checked = {}
    /\ replaced = {}
    /\ passed = {}

\* configure({ sessionStore: createRedisSessionStore() }), the keyspace empty.
\* This store sets no timer (Redis expires the keys), sweepAt is unused.
InitRedis ==
    /\ store = [i \in StoreKeys |-> NoRecord]
    /\ kind = "redis"
    /\ now = 0
    /\ nextId = 1
    /\ nextTok = 1
    /\ sweepAt = 0
    /\ heap = << >>
    /\ procs = [p \in ProcIds |-> Idle]
    /\ last = [op |-> "configure", cookie |-> NoCookie, arg |-> Undefined,
               ret |-> Result("undefined", Undefined), log |-> << >>]
    /\ checked = {}
    /\ replaced = {}
    /\ passed = {}

\* An application that uses the session data API.
Next ==
    \/ CallGetSessionId
    \/ CallGetSessionData
    \/ CallReplaceSessionData
    \/ CallSetSessionData(DataObjects)
    \/ CallPluckSessionProperty(DataKeys)
    \/ CallDestroySession

Spec == Init /\ [][Next]_vars

\* An application that uses the CSRF protocol and logs out.
NextCsrf ==
    \/ CallGetCSRFToken
    \/ CallValidateCSRFToken
    \/ CallDestroySession

\* The same over the Redis store.
SpecCsrfRedis == InitRedis /\ [][NextCsrf]_vars

\* The same over either store.
InitAny == Init \/ InitRedis

SpecCsrfAny == InitAny /\ [][NextCsrf]_vars

\* An application that beside the CSRF protocol keeps a property of its own
\* in the session, over the in-memory store.
NextCsrfData ==
    \/ CallGetCSRFToken
    \/ CallValidateCSRFToken
    \/ CallDestroySession
    \/ CallSetSessionData(CsrfObjects)

SpecCsrfData == Init /\ [][NextCsrfData]_vars

\* Such an application, none of whose sessions is destroyed, over either
\* store.
NextCsrfKeep ==
    \/ CallGetCSRFToken
    \/ CallValidateCSRFToken
    \/ CallSetSessionData(CsrfObjects)

SpecCsrfDataAny == InitAny /\ [][NextCsrfKeep]_vars

\* An application that stores properties, plucks them and logs out, over
\* either store.
NextPluck ==
    \/ CallSetSessionData(DataObjects)
    \/ CallPluckSessionProperty(DataKeys)
    \/ CallDestroySession

SpecPluckAny == InitAny /\ [][NextPluck]_vars

\* An application with a handler that stores two things one after the
\* other, beside handlers that store one.
NextTwice ==
    \/ CallSetSessionDataTwice(HandlerObjects)
    \/ CallSetSessionData(HandlerObjects)
    \/ CallGetSessionData
    \/ CallDestroySession

SpecTwice == Init /\ [][NextTwice]_vars

\* The in-memory store used directly while time passes.
NextExpiry ==
    \/ CallStoreGet(StoreCallIds)
    \/ CallStoreSet(StoreCallIds, CsrfObjects)
    \/ CallStoreMerge(StoreCallIds, CsrfObjects)
    \/ Tick
    \/ Sweep

SpecExpiry == Init /\ [][NextExpiry]_vars

\* The in-memory store used directly, as its tests use it.
NextStore ==
    \/ CallStoreGet(StoreCallIds)
    \/ CallStoreSet(StoreCallIds, DataObjects)
    \/ CallStoreMerge(StoreCallIds, DataObjects)
    \/ CallStoreDestroy(StoreCallIds)

SpecStore == Init /\ [][NextStore]_vars

\* A caller of the store that now and then passes no sessionId.
SloppyCallIds == {MissingId, 1}

NextStoreSloppy ==
    \/ CallStoreGet(SloppyCallIds)
    \/ CallStoreSet(SloppyCallIds, DataObjects)
    \/ CallStoreMerge(SloppyCallIds, DataObjects)
    \/ CallStoreDestroy(SloppyCallIds)

SpecStoreSloppy == Init /\ [][NextStoreSloppy]_vars

\* The one key the application of the input-error scenario uses, and the
\* property name left out.
PluckNames == {"a", ""}

\* An application that now and then leaves out the data or the property
\* name.
NextInput ==
    \/ CallSetSessionData(CsrfObjects)
    \/ CallSetSessionDataNoData
    \/ CallReplaceSessionDataNoData
    \/ CallPluckSessionProperty(PluckNames)
    \/ CallDestroySession

SpecInput == Init /\ [][NextInput]_vars

-----------------------------------------------------------------------------
(* What the claims speak of.                                               *)

\* The places of the backend calls named op in a call's record.
Calls(log, op) == {j \in DOMAIN log : log[j].op = op}

\* The step is the API call op.
Step(op) == last'.op = op

\* Every record's data is as it was, and the same ids have records.
DataUnchanged ==
    /\ Keys(store') = Keys(store)
    /\ \A i \in Keys(store) : store'[i].data = store[i].data

-----------------------------------------------------------------------------
\* C1: getSessionData is read-only whatever cookie the request carries: it
\* issues no cookie write, calls neither Store.set nor Store.merge, leaves
\* the ids that have records and every record's data as they were, and
\* returns the data of the record the cookie names, {} when there is none.
C1_GetSessionDataReadOnly ==
    [][Step("getSessionData") =>
        /\ Calls(last'.log, "cookie.write") = {}
        /\ Calls(last'.log, "store.set") = {}
        /\ Calls(last'.log, "store.merge") = {}
        /\ DataUnchanged
        /\ last'.ret.tag = "object"
        /\ last'.ret.val = IF Live(last'.cookie) THEN store[last'.cookie].data
                           ELSE EmptyData]_vars

\* getSessionData has returned the data, not empty, of a live session.
C1_Witness ==
    /\ last.op = "getSessionData"
    /\ last.cookie \in Keys(store)
    /\ last.ret.val = store[last.cookie].data
    /\ last.ret.val # EmptyData

\* C2: getSessionId with persist intent on a request with no live session
\* mints n, completes Store.set(n, {}) and only then writes the cookie n;
\* exactly one cookie write is issued, every cookie write carries n and
\* follows the set, and n is returned.
C2_SetBeforeCookieWrite ==
    [][(Step("getSessionId") /\ last'.arg = TRUE /\ ~Live(last'.cookie)) =>
        LET log == last'.log
            n == last'.ret.val
        IN  /\ n = nextId
            /\ n \notin RequestCookies
            /\ Calls(log, "store.id") # {}
            /\ Cardinality(Calls(log, "cookie.write")) = 1
            /\ \A w \in Calls(log, "cookie.write") :
                  /\ log[w].id = n
                  /\ \E s \in Calls(log, "store.set") :
                        s < w /\ log[s] = Call("store.set", n, EmptyData)
            /\ store'[n] # NoRecord
            /\ store'[n].data = EmptyData]_vars

\* A persisting resolution of a request with a stale cookie has run.
C2_Witness ==
    /\ last.op = "getSessionId"
    /\ last.arg = TRUE
    /\ last.cookie = ForgedId
    /\ Calls(last.log, "cookie.write") # {}
    /\ store[last.ret.val] # NoRecord

\* C3: when the cookie's id has a live record, getSessionId returns that id
\* whatever the persist intent, and calls neither Store.id, Store.set,
\* cookie write nor cookie destroy.
C3_LiveCookieReused ==
    [][(Step("getSessionId") /\ Live(last'.cookie)) =>
        /\ last'.ret = Result("id", last'.cookie)
        /\ Calls(last'.log, "store.id") = {}
        /\ Calls(last'.log, "store.set") = {}
        /\ Calls(last'.log, "cookie.write") = {}
        /\ Calls(last'.log, "cookie.destroy") = {}]_vars

\* getSessionId with persist intent has resolved a live cookie.
C3_Witness ==
    /\ last.op = "getSessionId"
    /\ last.arg = TRUE
    /\ last.cookie \in Keys(store)
    /\ last.ret.val = last.cookie

\* The backend calls that write to the store.
StoreWrites(log) ==
    Calls(log, "store.set") \cup Calls(log, "store.merge") \cup Calls(log, "store.destroy")

\* C4: getSessionId without persist intent: on a cookie whose id has no
\* live record it returns another id, issues a cookie destroy, no cookie
\* write and no store write; on a request with no cookie it issues no cookie
\* call of either kind and no store write.
C4_ReadOnlyResolution ==
    [][(Step("getSessionId") /\ last'.arg = FALSE /\ ~Live(last'.cookie)) =>
        /\ last'.ret.tag = "id"
        /\ last'.ret.val # last'.cookie
        /\ Calls(last'.log, "cookie.write") = {}
        /\ StoreWrites(last'.log) = {}
        /\ DataUnchanged
        /\ IF last'.cookie = NoCookie
           THEN Calls(last'.log, "cookie.destroy") = {}
           ELSE Calls(last'.log, "cookie.destroy") # {}]_vars

\* A read-only resolution has cleared a cookie whose id, once minted, has
\* no record.
C4_Witness ==
    /\ last.op = "getSessionId"
    /\ last.arg = FALSE
    /\ last.cookie \in MintedIds
    /\ store[last.cookie] = NoRecord
    /\ Calls(last.log, "cookie.destroy") # {}

\* The id of the cookie write in a call's record (the call made one).
WrittenId(log) == log[CHOOSE w \in Calls(log, "cookie.write") : TRUE].id

\* C5: setSessionData(D) on a request with no cookie issues exactly one
\* cookie write, with a newly minted id n, and creates exactly one record,
\* under n; a getSessionData that follows on a request carrying n returns D.
C5_SetOnNewRequest ==
    [][/\ (Step("setSessionData") /\ last'.cookie = NoCookie) =>
            LET log == last'.log
            IN  /\ Cardinality(Calls(log, "cookie.write")) = 1
                /\ WrittenId(log) = nextId
                /\ WrittenId(log) \notin Keys(store)
                /\ Keys(store') = Keys(store) \cup {WrittenId(log)}
                /\ \A i \in Keys(store) : store'[i].data = store[i].data
                /\ store'[WrittenId(log)].data = last'.arg
       /\ (/\ last.op = "setSessionData" /\ last.cookie = NoCookie
           /\ Step("getSessionData") /\ last'.cookie = WrittenId(last.log)) =>
            last'.ret = Result("object", last.arg)]_vars

\* setSessionData has stored two properties for a request with no cookie,
\* beside an older session.
C5_Witness ==
    /\ last.op = "setSessionData"
    /\ last.cookie = NoCookie
    /\ DOMAIN last.arg = DataKeys
    /\ Calls(last.log, "cookie.write") # {}
    /\ store[WrittenId(last.log)].data = last.arg
    /\ Cardinality(Keys(store)) = 2

-----------------------------------------------------------------------------
(* The CSRF protocol.                                                      *)

\* The step is validateCSRFToken on the live session c with the token t.
Validates(c, t) ==
    /\ Step("validateCSRFToken")
    /\ last'.cookie = c
    /\ last'.arg = t
    /\ Live(c)

\* The record of c holds no csrfToken after the step.
TokenRemoved(c) == store'[c] # NoRecord /\ "csrfToken" \notin DOMAIN store'[c].data

\* C6: with the in-memory store, on a session with a live record:
\* getCSRFToken stores the token t it returns, a validateCSRFToken(t) of the
\* session holding t returns true and leaves the session data without a
\* csrfToken key, and every validateCSRFToken(t) after one that accepted t
\* returns false.
C6_TokenValidOnce ==
    [][/\ (Step("getCSRFToken") /\ Live(last'.cookie)) =>
            /\ last'.ret.tag = "token"
            /\ store'[last'.cookie] # NoRecord
            /\ Prop(store'[last'.cookie].data, "csrfToken") = last'.ret.val
       /\ \A c \in Keys(store), t \in Tokens :
            Validates(c, t) =>
                /\ LiveToken(c) = {t} => last'.ret = Result("boolean", TRUE)
                /\ TokenRemoved(c)
                /\ t \in passed => last'.ret = Result("boolean", FALSE)]_vars

\* A token that had passed validation has been presented again to its
\* session, and was refused.
C6_Witness ==
    /\ last.op = "validateCSRFToken"
    /\ last.arg \in passed
    /\ last.cookie \in Keys(store)
    /\ last.ret = Result("boolean", FALSE)
    /\ "csrfToken" \notin DOMAIN store[last.cookie].data

\* C7: any validation consumes the token, a failing one too: on a session
\* whose live token is t, validateCSRFToken(u) with u # t returns false and
\* removes t; a token that was live when its session was validated never
\* passes afterwards, and no token passes validation twice.
C7_FailedValidationConsumes ==
    [][\A c \in Keys(store), u \in SuppliedTokens :
            Validates(c, u) =>
                /\ (LiveToken(c) # {} /\ LiveToken(c) # {u}) =>
                        /\ last'.ret = Result("boolean", FALSE)
                        /\ TokenRemoved(c)
                /\ u \in checked => last'.ret = Result("boolean", FALSE)
                /\ u \in passed => last'.ret = Result("boolean", FALSE)]_vars

\* C8: validateCSRFToken removes csrfToken from the stored record with a
\* store whose get returns a copy and whose merge is shallow (the Redis
\* store): the record has no csrfToken after the call, and a token that has
\* passed validation does not pass again.
C8_ValidateRemovesTokenAnyStore ==
    [][\A c \in Keys(store), t \in Tokens :
            Validates(c, t) =>
                /\ TokenRemoved(c)
                /\ t \in passed => last'.ret = Result("boolean", FALSE)]_vars

\* The tokens held in the store's records.
StoredTokens(st) ==
    {t \in Tokens : \E i \in Keys(st) : Prop(st[i].data, "csrfToken") = t}

\* C9: a session has one live token at most: a further getCSRFToken on a
\* session returns a token other than the session's live token (and than
\* every token issued before), the session data holds the new token in
\* place of the old one, no record holds the old one, and validateCSRFToken
\* with a token so replaced returns false.
C9_NewTokenReplaces ==
    [][/\ (Step("getCSRFToken") /\ Live(last'.cookie)) =>
            LET c == last'.cookie
                t2 == last'.ret.val
            IN  /\ t2 \notin LiveToken(c)
                /\ t2 \notin StoredTokens(store) \cup replaced \cup checked \cup passed
                /\ Prop(store'[c].data, "csrfToken") = t2
                /\ LiveToken(c) \cap StoredTokens(store') = {}
       /\ \A c \in Keys(store), t \in Tokens :
            (Validates(c, t) /\ t \in replaced) =>
                last'.ret = Result("boolean", FALSE)]_vars

\* The first token of a session has been presented after a second one was
\* issued to the session, and was refused.
C9_Witness ==
    /\ last.op = "validateCSRFToken"
    /\ last.arg \in replaced
    /\ last.cookie \in Keys(store)
    /\ last.ret = Result("boolean", FALSE)

\* C10: setSessionData(D) on a session whose data is S leaves the shallow
\* merge of S and D: D's value under every key of D, S's value under every
\* other key of S, no further key; on a request with no live session it
\* establishes one and writes its cookie.
C10_SetMerges ==
    [][Step("setSessionData") =>
        LET c == last'.cookie
            D == last'.arg
        IN  IF Live(c)
            THEN LET S == store[c].data
                     R == store'[c].data
                 IN  /\ DOMAIN R = (DOMAIN S) \cup (DOMAIN D)
                     /\ \A k \in DOMAIN D : R[k] = D[k]
                     /\ \A k \in (DOMAIN S) \ (DOMAIN D) : R[k] = S[k]
                     /\ Calls(last'.log, "cookie.write") = {}
                     /\ \A i \in Keys(store) \ {c} : store'[i] = store[i]
            ELSE /\ Calls(last'.log, "cookie.write") # {}
                 /\ WrittenId(last'.log) \notin Keys(store)
                 /\ store'[WrittenId(last'.log)] # NoRecord
                 /\ store'[WrittenId(last'.log)].data = D]_vars

\* A merge has overwritten one key of a live session and kept another.
C10_Witness ==
    /\ last.op = "setSessionData"
    /\ last.cookie \in Keys(store)
    /\ DOMAIN last.arg = {"a"}
    /\ DOMAIN store[last.cookie].data = {"a", "b"}
    /\ store[last.cookie].data["a"] = 200
    /\ store[last.cookie].data["b"] = 100
    /\ last.arg["a"] = 200

\* The id a persisting call on a request with cookie c resolves to: the
\* cookie's id when it has a record, the id Store.id() mints next otherwise.
ResolvedId(c) == IF Live(c) THEN c ELSE nextId

\* C11: replaceSessionData(D) overwrites the session data wholesale: the
\* record of the resolved session id holds exactly D afterwards (no key of
\* the previous data that is not in D remains), and no other record changes.
C11_ReplaceOverwrites ==
    [][Step("replaceSessionData") =>
        LET r == ResolvedId(last'.cookie)
            D == last'.arg
        IN  /\ store'[r] # NoRecord
            /\ store'[r].data = D
            /\ DOMAIN store'[r].data = DOMAIN D
            /\ Keys(store') = Keys(store) \cup {r}
            /\ \A i \in Keys(store) \ {r} : store'[i] = store[i]]_vars

\* replaceSessionData has put {} in the place of a live session's data.
C11_Witness ==
    /\ last.op = "replaceSessionData"
    /\ last.cookie \in Keys(store)
    /\ Calls(last.log, "store.id") = {}
    /\ last.arg = EmptyData
    /\ store[last.cookie].data = EmptyData

\* C12: with either store, pluckSessionProperty(p) on a session whose data
\* has the key p returns the value stored under p and removes exactly that
\* key: every other key keeps its value, no other record changes; a
\* pluckSessionProperty(p) that follows at once on the same session returns
\* null.
C12_PluckRemovesKey ==
    [][/\ (/\ Step("pluckSessionProperty")
           /\ Live(last'.cookie)
           /\ last'.arg \in DOMAIN store[last'.cookie].data) =>
            LET c == last'.cookie
                S == store[c].data
            IN  /\ last'.ret = Result("value", S[last'.arg])
                /\ store'[c] # NoRecord
                /\ store'[c].data = Without(S, last'.arg)
                /\ Keys(store') = Keys(store)
                /\ \A i \in Keys(store) \ {c} : store'[i] = store[i]
       /\ (/\ last.op = "pluckSessionProperty"
           /\ last.ret.tag = "value"
           /\ Step("pluckSessionProperty")
           /\ last'.cookie = last.cookie
           /\ last'.arg = last.arg) =>
            last'.ret = Result("null", Undefined)]_vars

\* A property has been plucked from a session that keeps its other
\* property.
C12_Witness ==
    /\ last.op = "pluckSessionProperty"
    /\ last.arg = "a"
    /\ last.ret = Result("value", 200)
    /\ last.cookie \in Keys(store)
    /\ DOMAIN store[last.cookie].data = {"b"}
    /\ store[last.cookie].data["b"] = 100

\* The session of cookie c holds no property p (there may be no session).
Lacks(c, p) == ~Live(c) \/ p \notin DOMAIN store[c].data

\* C13: pluckSessionProperty(p) on a session that lacks p returns null
\* and writes nothing: no Store.set, merge or destroy, no cookie write, the
\* ids with records and their data as before; on a request with no live
\* session no record is created.
C13_PluckAbsentWritesNothing ==
    [][(Step("pluckSessionProperty") /\ Lacks(last'.cookie, last'.arg)) =>
        /\ last'.ret = Result("null", Undefined)
        /\ StoreWrites(last'.log) = {}
        /\ Calls(last'.log, "cookie.write") = {}
        /\ DataUnchanged
        /\ ~Live(last'.cookie) => Keys(store') = Keys(store)]_vars

\* pluckSessionProperty has returned null on a request whose cookie names
\* no record, while another session exists.
C13_Witness ==
    /\ last.op = "pluckSessionProperty"
    /\ last.ret = Result("null", Undefined)
    /\ last.cookie = ForgedId
    /\ store[ForgedId] = NoRecord
    /\ Calls(last.log, "store.id") # {}
    /\ Keys(store) # {}

\* C14: with either store, destroySession always issues a cookie destroy,
\* whether or not the resolved id had a record; after it the store has no
\* record for the id of the request's cookie; it creates no record, calls
\* neither Store.set nor Store.merge, issues no cookie write and leaves
\* every other record as it was.
C14_DestroyClears ==
    [][Step("destroySession") =>
        /\ Calls(last'.log, "cookie.destroy") # {}
        /\ Calls(last'.log, "store.destroy") # {}
        /\ last'.cookie # NoCookie => store'[last'.cookie] = NoRecord
        /\ Keys(store') = Keys(store) \ {last'.cookie}
        /\ \A i \in Keys(store') : store'[i] = store[i]
        /\ Calls(last'.log, "cookie.write") = {}
        /\ Calls(last'.log, "store.set") = {}
        /\ Calls(last'.log, "store.merge") = {}]_vars

\* destroySession has deleted the record of a live session, another
\* session remaining.
C14_Witness ==
    /\ last.op = "destroySession"
    /\ last.cookie \in MintedIds
    /\ Calls(last.log, "store.id") = {}
    /\ last.log[Len(last.log)].op = "cookie.destroy"
    /\ store[last.cookie] = NoRecord
    /\ Keys(store) # {}

\* C15: setSessionData(D) or replaceSessionData(D) on a request whose cookie
\* id has no live record stores D under a newly minted id other than the
\* cookie's, issues one cookie write, carrying the new id, and creates no
\* record under the cookie's id.
C15_StaleCookieGetsNewId ==
    [][(/\ Step("setSessionData") \/ Step("replaceSessionData")
        /\ last'.cookie # NoCookie
        /\ ~Live(last'.cookie)) =>
        LET log == last'.log
        IN  /\ Cardinality(Calls(log, "cookie.write")) = 1
            /\ WrittenId(log) = nextId
            /\ WrittenId(log) # last'.cookie
            /\ WrittenId(log) \notin Keys(store)
            /\ store'[WrittenId(log)] # NoRecord
            /\ store'[WrittenId(log)].data = last'.arg
            /\ store'[last'.cookie] = NoRecord
            /\ Keys(store') = Keys(store) \cup {WrittenId(log)}]_vars

\* replaceSessionData has stored data for a request carrying an id the
\* store minted earlier that has no record.
C15_Witness ==
    /\ last.op = "replaceSessionData"
    /\ last.cookie \in MintedIds
    /\ store[last.cookie] = NoRecord
    /\ Calls(last.log, "cookie.write") # {}
    /\ WrittenId(last.log) # last.cookie
    /\ last.arg # EmptyData
    /\ store[WrittenId(last.log)].data = last.arg

\* The ids Store.id() has handed out so far.
Minted == {i \in MintedIds : i < nextId}

\* C19: session ids are never chosen by the caller: in every reachable
\* state every id that has a record was handed out by Store.id(), and the
\* id a client made up for its cookie has no record (no session fixation).
C19_KeysAreMinted ==
    /\ Keys(store) \subseteq Minted
    /\ store[ForgedId] = NoRecord

\* A persisting call has served a request whose cookie carried an id of
\* the client's making, and a record was written.
C19_Witness ==
    /\ last.op \in {"setSessionData", "replaceSessionData"}
    /\ last.cookie = ForgedId
    /\ Calls(last.log, "store.set") # {}
    /\ Keys(store) # {}

\* The step is a call of op that was given no data.
StepNoData(op) == Step(op) /\ DOMAIN last'.arg = DOMAIN Omitted

\* The step made no backend call and left the store and the ids as they were.
NothingDone ==
    /\ last'.log = << >>
    /\ store' = store
    /\ nextId' = nextId
    /\ nextTok' = nextTok

\* C20: setSessionData and replaceSessionData called without data, and
\* pluckSessionProperty called without a property name, fail with an input
\* error and do nothing else: no store read or write, no id minted, no
\* cookie read, write or destroy.
C20_InputErrorsDoNothing ==
    [][/\ (StepNoData("setSessionData") \/ StepNoData("replaceSessionData")) =>
            /\ last'.ret.tag = "throw"
            /\ last'.ret.msg = "No session data given"
            /\ NothingDone
       /\ (Step("pluckSessionProperty") /\ last'.arg = "") =>
            /\ last'.ret.tag = "throw"
            /\ last'.ret.msg = "No propertyName given"
            /\ NothingDone]_vars

\* replaceSessionData without data has failed on a request of a live
\* session.
C20_Witness ==
    /\ last.op = "replaceSessionData"
    /\ last.ret.tag = "throw"
    /\ last.log = << >>
    /\ last.cookie \in Keys(store)

-----------------------------------------------------------------------------
(* Expiry in the in-memory store.  A record's lastUpdate is the time of    *)
(* the last get, set or merge of its id, so a record with lastUpdate = T   *)
(* is one written or read at T and not touched since.                      *)

\* No record is removed before it is MaxSessionAge old (no step of the
\* scenario is a Store.destroy).
YoungSurvive ==
    \A i \in Keys(store) :
        now < store[i].lastUpdate + MaxSessionAge => store'[i] # NoRecord

\* C16 as claimed: a record last touched at T is present at every time
\* before T + MaxSessionAge and absent at every time from
\* T + MaxSessionAge + SweepInterval on.
C16_ExpiryBounds ==
    [][/\ YoungSurvive
       /\ \A i \in Keys(store') :
            now' < store'[i].lastUpdate + MaxSessionAge + SweepInterval]_vars

\* C16 amended: a record last touched at T is present at every time before
\* T + MaxSessionAge and absent at every time after
\* T + MaxSessionAge + SweepInterval; at T + MaxSessionAge + SweepInterval
\* it is present only as long as the sweep due at that instant has not run.
C16_ExpiryBoundsAfterSweep ==
    [][/\ YoungSurvive
       /\ \A i \in Keys(store') :
            LET end == store'[i].lastUpdate + MaxSessionAge + SweepInterval
            IN  /\ now' <= end
                /\ now' = end => sweepAt' = now']_vars

\* A sweep has deleted a record and kept one that is exactly MaxSessionAge
\* old.
C16_Witness ==
    /\ last.op = "sweep"
    /\ last.arg # {}
    /\ \E i \in Keys(store) : now = store[i].lastUpdate + MaxSessionAge

\* C17: sliding expiration: every Store.get that finds a record, every
\* Store.set and every Store.merge sets the record's lastUpdate to now; the
\* passing of time and the sweep change no record they keep; and the sweep
\* keeps every record whose last access is at most MaxSessionAge ago.  So a
\* record accessed at intervals of at most MaxSessionAge is never swept.
C17_SlidingExpiration ==
    [][/\ (Step("Store.get") /\ last'.ret.tag = "object") =>
            /\ store[last'.cookie] # NoRecord
            /\ store'[last'.cookie] # NoRecord
            /\ store'[last'.cookie].lastUpdate = now
       /\ (Step("Store.get") /\ store[last'.cookie] # NoRecord) =>
            last'.ret = Result("object", store[last'.cookie].data)
       /\ (Step("Store.set") \/ Step("Store.merge")) =>
            /\ store'[last'.cookie] # NoRecord
            /\ store'[last'.cookie].lastUpdate = now
       /\ (Step("tick") \/ Step("sweep")) =>
            \A j \in Keys(store') : store'[j] = store[j]
       /\ Step("sweep") =>
            \A j \in Keys(store) :
                now - store[j].lastUpdate <= MaxSessionAge => store'[j] # NoRecord]_vars

\* A sweep has kept a record accessed at the instant of the sweep, at a
\* time when no record of the store's first instant is left.
C17_Witness ==
    /\ last.op = "sweep"
    /\ now > MaxSessionAge + SweepInterval
    /\ \E j \in Keys(store) : store[j].lastUpdate = now

\* C18: Store.get(i) returns absent for a record that has been idle for
\* more than MaxSessionAge, swept or not: it neither returns the data of
\* such a record nor refreshes its lastUpdate.
C18_GetChecksExpiry ==
    [][\A i \in StoreCallIds :
        (/\ Step("Store.get")
         /\ last'.cookie = i
         /\ store[i] # NoRecord
         /\ now - store[i].lastUpdate > MaxSessionAge) =>
            /\ last'.ret = Result("null", Undefined)
            /\ store'[i] # NoRecord => store'[i].lastUpdate = store[i].lastUpdate]_vars

-----------------------------------------------------------------------------
(* The in-memory store called directly.                                    *)

\* Every record but that of id i is as it was.
OthersUnchanged(i) == \A j \in (DOMAIN store) \ {i} : store'[j] = store[j]

\* C21: in-memory store round trip: Store.set(i, D) leaves exactly D as
\* the data of i whatever record i held, changes no record of another id,
\* and a Store.get(i) that follows at once returns D.
C21_SetGetRoundTrip ==
    [][/\ Step("Store.set") =>
            /\ store'[last'.cookie] # NoRecord
            /\ store'[last'.cookie].data = last'.arg
            /\ OthersUnchanged(last'.cookie)
       /\ (/\ last.op = "Store.set"
           /\ Step("Store.get")
           /\ last'.cookie = last.cookie) =>
            /\ last'.ret = Result("object", last.arg)
            /\ OthersUnchanged(last'.cookie)]_vars

\* Store.get has returned a one-key object from an id while another id
\* holds a two-key record.
C21_Witness ==
    /\ last.op = "Store.get"
    /\ last.ret.tag = "object"
    /\ DOMAIN last.ret.val = {"b"}
    /\ \E j \in Keys(store) \ {last.cookie} : DOMAIN store[j].data = DataKeys

\* The data of id i before the step, {} when i has no record.
OldData(i) == IF store[i] # NoRecord THEN store[i].data ELSE EmptyData

\* C22: in-memory Store.merge(i, D) merges shallowly: afterwards the record
\* of i has D's value under every key of D, its old value under every other
\* key it had, and no further key; on an id with no record it leaves D, as
\* Store.set would, and does not fail; no other record changes; a Store.get(i)
\* that follows at once returns the merged data.
C22_MergeShallow ==
    [][/\ Step("Store.merge") =>
            LET i == last'.cookie
                D == last'.arg
                S == OldData(i)
            IN  /\ last'.ret = Result("undefined", Undefined)
                /\ store'[i] # NoRecord
                /\ DOMAIN store'[i].data = (DOMAIN S) \cup (DOMAIN D)
                /\ \A k \in DOMAIN D : store'[i].data[k] = D[k]
                /\ \A k \in (DOMAIN S) \ (DOMAIN D) : store'[i].data[k] = S[k]
                /\ store[i] = NoRecord => store'[i].data = D
                /\ OthersUnchanged(i)
       /\ (/\ last.op = "Store.merge"
           /\ Step("Store.get")
           /\ last'.cookie = last.cookie) =>
            /\ last'.ret = Result("object", store[last.cookie].data)
            /\ \A k \in DOMAIN last.arg : last'.ret.val[k] = last.arg[k]]_vars

\* A merge of {b: 200} into a record holding {a: 100} has left both.
C22_Witness ==
    /\ last.op = "Store.merge"
    /\ DOMAIN last.arg = {"b"}
    /\ last.arg["b"] = 200
    /\ DOMAIN store[last.cookie].data = {"a", "b"}
    /\ store[last.cookie].data["a"] = 100
    /\ store[last.cookie].data["b"] = 200

\* The step is a Store.set or a Store.merge on id i.
Writes(i) == (Step("Store.set") \/ Step("Store.merge")) /\ last'.cookie = i

\* C23: in-memory Store.destroy(i) removes the record of i and no other,
\* and on an id with no record it succeeds and leaves the store as it was;
\* from then on i has no record until a Store.set or Store.merge on i, and
\* every Store.get(i) in between returns null.
C23_DestroyThenAbsent ==
    [][/\ Step("Store.destroy") =>
            /\ last'.ret = Result("boolean", store[last'.cookie] # NoRecord)
            /\ store'[last'.cookie] = NoRecord
            /\ OthersUnchanged(last'.cookie)
            /\ store[last'.cookie] = NoRecord => store' = store
       /\ \A i \in StoreCallIds :
            (store[i] = NoRecord /\ ~Writes(i)) =>
                /\ store'[i] = NoRecord
                /\ (Step("Store.get") /\ last'.cookie = i) =>
                        last'.ret = Result("null", Undefined)]_vars

\* Store.destroy has removed a record (Map.delete returned true) and left
\* the record of another id.
C23_Witness ==
    /\ last.op = "Store.destroy"
    /\ last.ret = Result("boolean", TRUE)
    /\ store[last.cookie] = NoRecord
    /\ Keys(store) # {}

\* C24: in-memory Store.get(i) on an id with no record returns null and
\* leaves the store as it was: no record is created.
C24_GetUnknownIsNull ==
    [][(Step("Store.get") /\ store[last'.cookie] = NoRecord) =>
        /\ last'.ret = Result("null", Undefined)
        /\ store' = store]_vars

\* Store.get has returned null for an id without record while the store
\* holds a record of another id.
C24_Witness ==
    /\ last.op = "Store.get"
    /\ last.ret = Result("null", Undefined)
    /\ store[last.cookie] = NoRecord
    /\ Keys(store) # {}

\* The step is a call of one of the store's four operations.
StoreStep ==
    Step("Store.get") \/ Step("Store.set") \/ Step("Store.merge") \/ Step("Store.destroy")

\* C25: a Store.get, set, merge or destroy called with no sessionId fails
\* with an error for the caller and leaves the store as it was: no record
\* is created under the missing id.
C25_MissingIdRejected ==
    [][(StoreStep /\ last'.cookie = MissingId) =>
        /\ last'.ret.tag = "throw"
        /\ store' = store
        /\ store'[MissingId] = NoRecord]_vars

-----------------------------------------------------------------------------
(* Several calls on one request.                                           *)

\* The session cookie the response carries at the end: res.setHeader
\* replaces the header, so the last cookie write decides (the call made one).
FinalCookie(log) ==
    LET ws == Calls(log, "cookie.write")
    IN  log[CHOOSE w \in ws : \A v \in ws : v <= w].id

\* C26: two setSessionData calls on the same request, which has no live
\* session, resolve to the same session: one id is minted, and the session
\* the response's final cookie names holds the data of the first call
\* merged with that of the second.
C26_SameRequestSameSession ==
    [][(Step("setSessionData twice") /\ ~Live(last'.cookie)) =>
        LET log == last'.log
            D1 == last'.arg[1]
            D2 == last'.arg[2]
        IN  /\ Calls(log, "cookie.write") # {}
            /\ Cardinality(Calls(log, "store.id")) = 1
            /\ store'[FinalCookie(log)] # NoRecord
            /\ store'[FinalCookie(log)].data = Assign(D1, D2)
            /\ Keys(store') = Keys(store) \cup {FinalCookie(log)}]_vars

-----------------------------------------------------------------------------
(* Concurrent calls.                                                       *)

\* Both processes have completed a call of op on a request with cookie c.
BothDone(op, c) ==
    \A p \in ProcIds :
        procs[p].pc = "done" /\ procs[p].op = op /\ procs[p].c = c

\* C27: with the in-memory store, when two setSessionData calls on the live
\* session 1 that write different keys have both completed, however their
\* steps interleaved, the record of the session holds both keys with the
\* values written, beside the keys it had.
C27_NoLostUpdate ==
    (/\ BothDone("setSessionData", 1)
     /\ DOMAIN procs[1].arg \cap DOMAIN procs[2].arg = {}) =>
        /\ store[1] # NoRecord
        /\ \A p \in ProcIds :
              /\ procs[p].sid = 1
              /\ \A k \in DOMAIN procs[p].arg :
                    Prop(heap[store[1].obj], k) = procs[p].arg[k]

\* Two setSessionData calls on session 1, with different keys, have
\* completed after running interleaved.
C27_Witness ==
    /\ BothDone("setSessionData", 1)
    /\ procs[1].arg # procs[2].arg
    /\ procs[1].raced /\ procs[2].raced
    /\ DOMAIN heap[store[1].obj] = {"a", "b"}

\* C28: the Redis store's merge is indivisible: when two Store.merge calls
\* on id 1 that write different keys have both completed, the stored
\* document holds both keys with the values written.
C28_RedisMergeAtomic ==
    (/\ BothDone("Store.merge", 1)
     /\ DOMAIN procs[1].arg \cap DOMAIN procs[2].arg = {}) =>
        /\ store[1] # NoRecord
        /\ \A p \in ProcIds :
              \A k \in DOMAIN procs[p].arg :
                  Prop(store[1].data, k) = procs[p].arg[k]

\* The cookies of a client without live session: none, or a made-up id.
NoSessionCookies == {NoCookie, ForgedId}

\* C29: when two requests without live session run a persisting call
\* (setSessionData, replaceSessionData) concurrently, every step of such a
\* call changes no record but that of the call's own id and no object of
\* the heap; once both have completed each has minted an id of its own,
\* other than the cookie's and than the id of the session that existed,
\* each has written one cookie, carrying its id, each record holds its
\* call's data, and the store holds these two records beside the old one.
C29_RacingNewSessions ==
    [][/\ \A p \in ProcIds :
            (procs'[p] # procs[p] /\ procs'[p].c \in NoSessionCookies) =>
                /\ \A j \in DOMAIN store : store'[j] # store[j] => j = procs'[p].sid
                /\ \A o \in DOMAIN heap : heap'[o] = heap[o]
                /\ store'[1] = store[1]
       /\ (\A p \in ProcIds : procs'[p].pc = "done" /\ procs'[p].c \in NoSessionCookies) =>
            /\ procs'[1].sid # procs'[2].sid
            /\ Keys(store') = {1, procs'[1].sid, procs'[2].sid}
            /\ \A p \in ProcIds :
                  LET q == procs'[p]
                  IN  /\ q.sid \notin {1, q.c}
                      /\ Cardinality(Calls(q.log, "cookie.write")) = 1
                      /\ WrittenId(q.log) = q.sid
                      /\ heap'[store'[q.sid].obj] = q.arg]_vars

\* Two persisting calls on requests without cookie have completed after
\* running interleaved, and the store holds three records.
C29_Witness ==
    /\ \A p \in ProcIds :
          procs[p].pc = "done" /\ procs[p].c = NoCookie /\ procs[p].raced
    /\ procs[1].op = "setSessionData"
    /\ procs[2].op = "replaceSessionData"
    /\ Cardinality(Keys(store)) = 3

\* The validateCSRFToken calls that have found their token valid.
FoundValid == {p \in ProcIds : /\ procs[p].op = "validateCSRFToken"
                               /\ procs[p].ret.tag = "boolean"
                               /\ procs[p].ret.val}

\* C30: with the in-memory store, of two validateCSRFToken calls that
\* present the live token of one session and run interleaved, at most one
\* finds the token valid.
C30_OneValidationWins ==
    (\A p \in ProcIds : /\ procs[p].op = "validateCSRFToken"
                        /\ procs[p].c = 1 /\ procs[p].arg = 1) =>
        Cardinality(FoundValid) <= 1

\* Two calls with the live token have completed after running interleaved:
\* one returned true, the other false.
C30_Witness ==
    /\ \A p \in ProcIds : /\ procs[p].op = "validateCSRFToken"
                          /\ procs[p].pc = "done" /\ procs[p].raced
                          /\ procs[p].c = 1 /\ procs[p].arg = 1
    /\ Cardinality(FoundValid) = 1

\* The data of the session when the call of p first read it.
GotData(p) == procs[p].log[CHOOSE j \in Calls(procs[p].log, "store.get") :
                              \A h \in Calls(procs[p].log, "store.get") : j <= h].data

\* The pluckSessionProperty calls that returned a value.
Plucked == {p \in ProcIds : /\ procs[p].op = "pluckSessionProperty"
                            /\ procs[p].ret.tag = "value"}

\* C31: with the in-memory store, of two pluckSessionProperty calls for one
\* property of one session that run interleaved, where the session held the
\* property when the first of them read the data, exactly one returns the
\* value stored and the other returns null.
C31_PluckOnce ==
    (/\ BothDone("pluckSessionProperty", 1)
     /\ procs[1].arg = procs[2].arg
     /\ \E p \in ProcIds : procs[1].arg \in DOMAIN GotData(p)) =>
        /\ Cardinality(Plucked) = 1
        /\ \A p \in ProcIds :
              IF p \in Plucked
              THEN procs[p].ret.val = GotData(p)[procs[p].arg]
              ELSE procs[p].ret = Result("null", Undefined)

\* Two calls for the property "a" have completed after running interleaved,
\* both having read the data while it held "a".
C31_Witness ==
    /\ BothDone("pluckSessionProperty", 1)
    /\ \A p \in ProcIds : /\ procs[p].arg = "a" /\ procs[p].raced
                          /\ Cardinality(Calls(procs[p].log, "store.get")) > 0
    /\ Cardinality(Plucked) = 1

\* C32: when destroySession and a setSessionData or replaceSessionData on
\* requests with the cookie of one live session have run concurrently and
\* both have completed, the store holds no record under that id.
C32_NotResurrected ==
    (/\ \A p \in ProcIds : procs[p].pc = "done" /\ procs[p].c = 1
     /\ \E p \in ProcIds : procs[p].op = "destroySession"
     /\ \E p \in ProcIds : procs[p].op \in {"setSessionData", "replaceSessionData"}) =>
        store[1] = NoRecord

\* C33: validateCSRFToken returns true only where the session of the
\* request holds a live token and the token supplied equals it; on a
\* request without session or without live token it returns false whatever
\* is supplied, an omitted token included.
C33_ValidOnlyWithLiveToken ==
    [][(Step("validateCSRFToken") /\ last'.ret.val) =>
            LiveToken(last'.cookie) = {last'.arg}]_vars

\* The cookie calls of a log, writes and destroys.
CookieActions(log) == Calls(log, "cookie.write") \cup Calls(log, "cookie.destroy")

\* The call has ended with a persisting write for a session of its own
\* making: one cookie write, the last cookie call of the response, with an
\* id minted during the call, and one new record, under that id, with no
\* csrfToken.
EndsWithNewSession ==
    LET log == last'.log
    IN  /\ Cardinality(Calls(log, "cookie.write")) = 1
        /\ \A j \in CookieActions(log) : log[j].op = "cookie.destroy" =>
                \E w \in Calls(log, "cookie.write") : j < w
        /\ WrittenId(log) \in nextId .. (nextId' - 1)
        /\ WrittenId(log) # last'.cookie
        /\ Keys(store') = Keys(store) \cup {WrittenId(log)}
        /\ WrittenId(log) \notin Keys(store)
        /\ "csrfToken" \notin DOMAIN store'[WrittenId(log)].data
        /\ \A j \in Keys(store) : store'[j] = store[j]

\* validateCSRFToken on a request with no live session ends with a
\* persisting write, and returns false where a token is supplied.
PersistsWhereTokenSupplied ==
    [][(Step("validateCSRFToken") /\ ~Live(last'.cookie)) =>
            /\ EndsWithNewSession
            /\ last'.arg # Undefined => last'.ret = Result("boolean", FALSE)]_vars

\* C34: validateCSRFToken on a request with no live session (no cookie, or
\* a cookie whose id has no record) returns false and still ends with a
\* persisting write: it mints an id, creates one record, without csrfToken,
\* and issues a cookie write for that id as the last cookie call.
C34_ValidateAlwaysPersists ==
    /\ PersistsWhereTokenSupplied
    /\ [][(Step("validateCSRFToken") /\ ~Live(last'.cookie)) =>
                last'.ret = Result("boolean", FALSE)]_vars

\* The data without its csrfToken.
AppData(d) == Without(d, "csrfToken")

\* C35: getCSRFToken and validateCSRFToken on a request of a live session
\* change nothing but the csrfToken of that session's data: every other
\* key is there with the value it had, no key is added, the records of all
\* other sessions are as they were and no record is created or removed.
C35_CsrfTouchesOnlyToken ==
    [][((Step("getCSRFToken") \/ Step("validateCSRFToken")) /\ Live(last'.cookie)) =>
            LET c == last'.cookie
            IN  /\ Keys(store') = Keys(store)
                /\ AppData(store'[c].data) = AppData(store[c].data)
                /\ \A j \in Keys(store) \ {c} : store'[j] = store[j]]_vars

\* getCSRFToken has stored a token in a session that holds a property of
\* the application, while another session exists.
C35_Witness ==
    /\ last.op = "getCSRFToken"
    /\ last.cookie \in Keys(store)
    /\ DOMAIN store[last.cookie].data = {"a", "csrfToken"}
    /\ Cardinality(Keys(store)) = 2
    /\ last.log[1] = Call("cookie.read", last.cookie, EmptyData)
    /\ Calls(last.log, "store.id") = {}

\* The last sweep within the time modelled, and the latest time of a write
\* whose record that sweep finds expired.
LastSweep == (MaxTime \div SweepInterval) * SweepInterval
Horizon == LastSweep - MaxSessionAge - 1

\* The call of p made the record of id n: it minted n and set it.
Made(p, n) ==
    /\ Call("store.id", n, EmptyData) \in {procs[p].log[j] : j \in DOMAIN procs[p].log}
    /\ Call("store.set", n, EmptyData) \in {procs[p].log[j] : j \in DOMAIN procs[p].log}

Changed(j) ==
    \/ (store'[j] = NoRecord) # (store[j] = NoRecord)
    \/ store[j] # NoRecord /\ store'[j] # NoRecord /\ store'[j].data # store[j].data

\* C37: sessions are isolated, Store.id never handing out an id that has a
\* record: a call changes the record of no session but the one its request
\* resolves to, which is the cookie's where that has a live record and one
\* minted during the call otherwise, so that a record holds only what
\* requests of its session wrote; and getSessionData returns the data of the
\* record the cookie names, {} to a request with no cookie or with an id
\* that has no live record.
C37_SessionIsolation ==
    [][/\ \A j \in StoreKeys :
            Changed(j) => IF Live(last'.cookie) THEN j = last'.cookie
                          ELSE j \in nextId .. (nextId' - 1) /\ store[j] = NoRecord
       /\ Step("getSessionData") =>
            /\ last'.ret.tag = "object"
            /\ last'.ret.val = IF Live(last'.cookie) THEN store[last'.cookie].data
                               ELSE EmptyData]_vars

\* Two sessions hold different data and getSessionData has returned to a
\* request of one of them the data of that one.
C37_Witness ==
    /\ last.op = "getSessionData"
    /\ last.cookie \in Keys(store)
    /\ last.ret.tag = "object"
    /\ last.ret.val = store[last.cookie].data
    /\ \E j \in Keys(store) \ {last.cookie} :
            store[j].data # store[last.cookie].data /\ store[j].data # EmptyData

\* A backend call of the call of p is rejected in the step.
Rejects(p) ==
    /\ Len(procs'[p].log) > Len(procs[p].log)
    /\ procs'[p].log[Len(procs'[p].log)].op = "rejected"

\* C38: when a call of the store or of the cookie handler fails during an
\* API call, the API call ends there with that error: the failed call was
\* made once, nothing of the flow runs after it, and the records are as the
\* calls before it left them; where it is the Store.set(newId, {}) of a
\* persisting resolution, no cookie write was issued and the new id has no
\* record, then and later.
C38_ErrorsPropagate ==
    [][\A p \in ProcIds :
        LET q == procs'[p]
            n == Len(q.log)
        IN  /\ Rejects(p) =>
                /\ q.pc = "done"
                /\ q.ret = Result("error", PcOp(procs[p].pc))
                /\ n = Len(procs[p].log) + 2
                /\ q.log[n - 1].op = PcOp(procs[p].pc)
                /\ SubSeq(q.log, 1, n - 2) = procs[p].log
                /\ store' = store
                /\ procs[p].pc = "set0" =>
                        /\ Calls(q.log, "cookie.write") = {}
                        /\ Calls(q.log, "store.merge") = {}
                        /\ store'[q.sid] = NoRecord
            /\ procs[p].ret.tag = "error" =>
                /\ q = procs[p]
                /\ (procs[p].sid # NoCookie /\ store[procs[p].sid] = NoRecord) =>
                        store'[procs[p].sid] = NoRecord]_vars

\* The Store.set(newId, {}) of a setSessionData on a request without cookie
\* has failed, while the other request's call went through.
C38_Witness ==
    \E p \in ProcIds, q \in ProcIds :
        /\ procs[p].op = "setSessionData"
        /\ procs[p].c = NoCookie
        /\ procs[p].ret.tag = "error"
        /\ procs[p].ret.val = "store.set"
        /\ Calls(procs[p].log, "store.id") # {}
        /\ procs[q].pc = "done"
        /\ procs[q].ret.tag = "undefined"
        /\ Calls(procs[q].log, "store.merge") # {}

=============================================================================
